---------------------------- MODULE Spec2Model ----------------------------
(***************************************************************************)
(* A model of the logrus Datadog hook (options-configured variant):        *)
(* New / Fire / Close, the batching goroutines started by batch(), and the *)
(* retry loop of send().                                                   *)
(*                                                                         *)
(* Goroutines are modelled by a program counter each.  The captured        *)
(* variables `batch` and `size` of batch() are shared by the consumer      *)
(* goroutine and the ticker goroutine without synchronisation, so every    *)
(* load and every store of them is a step of its own.  A load or a store   *)
(* of the slice header is taken as one step (no torn header), and steps    *)
(* are seen by all goroutines in one order.                                *)
(*                                                                         *)
(* A panic (send on a closed channel, close of a closed channel) ends the  *)
(* process: no action is enabled once `panicked` is set.                   *)
(***************************************************************************)
EXTENDS Integers, Sequences, FiniteSets, TLC

(***************************************************************************)
(* Thresholds.  The program's values are 5*1024*1024, 256*1024 and 1000;   *)
(* the model scales them down and keeps their order                        *)
(* (maxLogSize + 2 <= maxContentSize, a framed single line always fits).   *)
(***************************************************************************)
maxContentSize == 4
maxLogSize == 2
maxLogCount == 2

(* Bounds of the model. *)
MaxFire == 3            \* Fire calls made by the application, batching enabled
MaxFireUnbatched == 2   \* Fire calls made by the application, batching disabled
MaxTicks == 2           \* ticks the time.Ticker delivers
MaxClose == 2           \* Close calls made by the application

(* Encoded lines are 1..maxLogSize bytes long, or one byte more (oversize). *)
MaxEntryLen == maxLogSize + 1

VARIABLES
    options,    \* the Options the application passes to New: ApiKey, ClientBatchingEnabled
    h,          \* the hook's configuration: ClientBatchingEnabled, MaxRetry, urlOk
    entryC,     \* h.entryC, an unbuffered channel: "open" or "closed" ("none" before New)
    done,       \* h.done, an unbuffered channel: "open" or "closed" ("none" before New)
    errorC,     \* h.errorC of the environment-configured hook: "open" or "closed"
                \* ("none" in the options-configured hook, which has no such channel)
    ticker,     \* h.ticker: stopped, a tick waiting in ticker.C, ticks delivered;
                \* and (history) how many lines had been appended at the last tick
    wg,         \* h.wg's counter
    batch,      \* batch(): var batch [][]byte, captured by both goroutines
    size,       \* batch(): size := 0, captured by both goroutines
    pc,         \* where each goroutine is
    formatted,  \* consumer goroutine: the line being appended
    loaded,     \* consumer goroutine: the values it loaded from batch and size
    sent,       \* history: every non-empty batch handed to send(), with its cycle
    appended,   \* history: the lines the consumer goroutine appended to batch
    accepted,   \* history: the entries the consumer goroutine received, in order
    fireLog,    \* history: the Fire calls and what they returned
    closes,     \* history: Close calls that returned
    panicked    \* the process died of a panic

vars == <<options, h, errorC, entryC, done, ticker, wg, batch, size, pc, formatted, loaded,
          sent, appended, accepted, fireLog,
          closes, panicked>>

Goroutines == {"app", "closer", "batchfn", "cons", "tick", "helper"}

None == [id |-> 0, len |-> 0]

(***************************************************************************)
(* Entries and the encoder.  An entry is known by the place of its Fire    *)
(* call; the Formatter either fails or yields a line of e.len bytes.       *)
(***************************************************************************)
Entries(n) ==
    {[id |-> n, len |-> l, ok |-> TRUE] : l \in 1..MaxEntryLen}
        \cup {[id |-> n, len |-> 0, ok |-> FALSE]}

Format(e) == [id |-> e.id, len |-> e.len]

RECURSIVE SumLen(_)
SumLen(b) == IF b = <<>> THEN 0 ELSE Head(b).len + SumLen(Tail(b))

(* send(): the length of buf after the framing loop. *)
RECURSIVE BufLenFrom(_, _, _)
BufLenFrom(b, i, acc) ==
    IF i > Len(b) THEN acc
    ELSE LET open == IF i = 1 THEN 1 ELSE 0
             line == b[i].len
             tail == 1   \* ']' after the last line, ',' after any other
         IN  BufLenFrom(b, i + 1, acc + open + line + tail)

BufLen(b) == BufLenFrom(b, 1, 0)

(***************************************************************************)
(* New(): the state when New has returned a hook.  In batched mode the     *)
(* goroutine running batch() has been created and has not run yet.         *)
(***************************************************************************)
InitHook(batching, retries, url) ==
    /\ options = [ApiKey |-> "key",
                  ClientBatchingEnabled |-> IF batching THEN "true" ELSE "false"]
    /\ h = [ApiKey |-> TRUE, ClientBatchingEnabled |-> batching,
            MaxRetry |-> retries, urlOk |-> url]
    /\ entryC = "open"
    /\ done = "open"
    /\ errorC = "none"
    /\ ticker = [stopped |-> FALSE, pending |-> FALSE, count |-> 0, mark |-> 0]
    /\ wg = 0
    /\ batch = <<>>
    /\ size = 0
    /\ pc = [t \in Goroutines |->
                IF t \in {"app", "closer"} THEN "idle"
                ELSE IF t = "batchfn" /\ batching THEN "b_start"
                ELSE "off"]
    /\ formatted = None
    /\ loaded = [batch |-> <<>>, size |-> 0]
    /\ sent = <<>>
    /\ appended = <<>>
    /\ accepted = <<>>
    /\ fireLog = <<>>
    /\ closes = 0
    /\ panicked = FALSE

(***************************************************************************)
(* send()                                                                  *)
(***************************************************************************)

(* The send cycle goroutine t is in. *)
Cur(t) == CHOOSE k \in 1..Len(sent) : sent[k].who = t /\ sent[k].result = "active"

(* Mutant of SendReturnsAtOnce: a batch of one line is treated as empty. *)
SendSkipsSingleLine(b) == ~h.ApiKey \/ Len(b) <= 1

(* send(), up to the retry loop: nothing happens for an empty batch or an  *)
(* empty key; a URL that does not parse is reported and ends the call.     *)
SendReturnsAtOnce(b) == ~h.ApiKey \/ Len(b) = 0

(* Where the caller of send(b) is next: in the retry loop, or past the call. *)
PcOfSend(b, sending, after) ==
    IF SendReturnsAtOnce(b) \/ ~h.urlOk THEN after ELSE sending

(* The calls of send() so far, with send(b) called by goroutine t. *)
SentWith(t, b) ==
    IF SendReturnsAtOnce(b) THEN sent
    ELSE Append(sent, [who |-> t, lines |-> b, tries |-> <<>>, i |-> 0,
                       result |-> IF h.urlOk THEN "active" ELSE "urlerr",
                       body |-> IF h.urlOk THEN "full" ELSE "gone"])

(* The call send(b) by goroutine t, up to the retry loop. *)
CallSend(t, b, sending, after) ==
    /\ sent' = SentWith(t, b)
    /\ pc' = [pc EXCEPT ![t] = PcOfSend(b, sending, after)]

(* Mutants of GivesUp: the exit test one attempt late, and one early. *)
GivesUpLate(i) == h.MaxRetry < 0 \/ i > h.MaxRetry

GivesUpEarly(i) == h.MaxRetry < 0 \/ i >= h.MaxRetry - 1

(* The retry loop's exit test after the i-th failed attempt. *)
GivesUp(i) == h.MaxRetry < 0 \/ i >= h.MaxRetry

(* req.Body is the bytes.Buffer made once, before the retry loop: "full"    *)
(* while it holds all of buf, "part" when some of it has been read, "none" *)
(* when all of it has.  http.DefaultClient.Do reads the body it is given   *)
(* and does not rewind it: an attempt leaves what it found, or less.       *)
BodyLeftBy(body) ==
    CASE body = "full" -> {"full", "part", "none"}
      [] body = "part" -> {"part", "none"}
      [] body = "none" -> {"none"}

(* Do returns an error when the body is shorter than the Content-Length of *)
(* the request, which NewRequest set to len(buf).                          *)
ShortBody(body) == body # "full"

(* A response counts as a failure on a transport error or a status >= 400. *)
Failed(err, status) == err \/ status >= 400

AfterSend(p) ==
    CASE p = "c_send" -> "c_resetB"
      [] p = "t_send" -> "t_resetB"
      [] p = "d_send" -> "exit"
      [] p = "f_send" -> "idle"

SetLastRet(log, r) == [log EXCEPT ![Len(log)].ret = r]

(* Mutant of ReturnAfterSend: a send that was given up is reported. *)
ReturnSendError(result) == IF result = "ok" THEN "nil" ELSE "err"

(* Fire, batching disabled: h.send(...) returns nothing, then return nil. *)
ReturnAfterSend(result) == "nil"

(* One pass of the retry loop: http.DefaultClient.Do and what follows. *)
Attempt(t) ==
    /\ ~panicked
    /\ pc[t] \in {"c_send", "t_send", "d_send", "f_send"}
    /\ \E err \in BOOLEAN, status \in {200, 400}, left \in BodyLeftBy(sent[Cur(t)].body) :
         LET k == Cur(t)
             r == sent[k]
             failed == Failed(err \/ ShortBody(r.body), status)
             i2 == IF failed THEN r.i + 1 ELSE r.i
             over == ~failed \/ GivesUp(i2)
         IN  /\ sent' = [sent EXCEPT ![k] =
                            [r EXCEPT !.tries = Append(@, IF failed THEN "fail" ELSE "ok"),
                                      !.i = i2,
                                      !.result = IF ~failed THEN "ok"
                                                 ELSE IF GivesUp(i2) THEN "terminal"
                                                 ELSE "active",
                                      !.body = IF over THEN "gone" ELSE left]]
             /\ pc' = [pc EXCEPT ![t] = IF over THEN AfterSend(@) ELSE @]
             /\ wg' = IF over /\ pc[t] = "d_send" THEN wg - 1 ELSE wg
             /\ fireLog' = IF over /\ pc[t] = "f_send"
                           THEN SetLastRet(fireLog,
                                    ReturnAfterSend(IF failed THEN "terminal" ELSE "ok"))
                           ELSE fireLog
    /\ UNCHANGED <<options, h, errorC, entryC, done, ticker, batch, size, formatted, loaded,
                   appended, accepted, closes, panicked>>

(***************************************************************************)
(* Fire()                                                                  *)
(***************************************************************************)
FireLimit == IF h.ClientBatchingEnabled THEN MaxFire ELSE MaxFireUnbatched

(* Mutant of UnbufferedSend: the channel has room, the send returns at once. *)
BufferedSend == "idle"

(* h.entryC <- *entry on make(chan logrus.Entry): the sender waits in the  *)
(* send until a receiver takes the entry.                                  *)
UnbufferedSend == "fire_send"

Fire ==
    /\ ~panicked
    /\ pc["app"] = "idle"
    /\ Len(fireLog) < FireLimit
    /\ \E e \in Entries(Len(fireLog) + 1) :
         IF h.ClientBatchingEnabled
         THEN \* h.entryC <- *entry: blocks until the consumer goroutine receives
              /\ fireLog' = Append(fireLog, [entry |-> e, ret |-> "blocked"])
              /\ pc' = [pc EXCEPT !["app"] = UnbufferedSend]
              /\ UNCHANGED sent
         ELSE IF ~e.ok
         THEN /\ fireLog' = Append(fireLog, [entry |-> e, ret |-> "err"])
              /\ UNCHANGED <<pc, sent>>
         ELSE /\ CallSend("app", <<Format(e)>>, "f_send", "idle")
              /\ fireLog' = Append(fireLog,
                     [entry |-> e, ret |-> IF pc'["app"] = "idle"
                                           THEN ReturnAfterSend("urlerr") ELSE "sending"])
    /\ UNCHANGED <<options, h, errorC, entryC, done, ticker, wg, batch, size, formatted, loaded,
                   appended, accepted, closes, panicked>>

(* A send on a closed channel panics, also when the channel is closed while *)
(* the sender is blocked on it.                                             *)
FirePanics ==
    /\ ~panicked
    /\ pc["app"] = "fire_send"
    /\ entryC = "closed"
    /\ panicked' = TRUE
    /\ fireLog' = SetLastRet(fireLog, "panic")
    /\ UNCHANGED <<options, h, errorC, entryC, done, ticker, wg, batch, size, pc, formatted, loaded,
                   sent, appended, accepted, closes>>

(***************************************************************************)
(* batch(): the function itself, which starts the two goroutines           *)
(***************************************************************************)
BatchStartConsumer ==
    /\ ~panicked
    /\ pc["batchfn"] = "b_start"
    /\ wg' = wg + 1
    /\ pc' = [pc EXCEPT !["batchfn"] = "b_mid", !["cons"] = "c_recv"]
    /\ UNCHANGED <<options, h, errorC, entryC, done, ticker, batch, size, formatted, loaded,
                   sent, appended, accepted, fireLog, closes, panicked>>

BatchStartTicker ==
    /\ ~panicked
    /\ pc["batchfn"] = "b_mid"
    /\ wg' = wg + 1
    /\ pc' = [pc EXCEPT !["batchfn"] = "exit", !["tick"] = "t_select"]
    /\ UNCHANGED <<options, h, errorC, entryC, done, ticker, batch, size, formatted, loaded,
                   sent, appended, accepted, fireLog, closes, panicked>>

(***************************************************************************)
(* batch(): the consumer goroutine, for entry := range h.entryC            *)
(***************************************************************************)
ConsumerReceive ==
    /\ ~panicked
    /\ pc["cons"] = "c_recv"
    /\ entryC = "open"
    /\ pc["app"] = "fire_send"
    /\ LET e == fireLog[Len(fireLog)].entry
       IN  /\ accepted' = Append(accepted, e)
           /\ fireLog' = SetLastRet(fireLog, "nil")
           /\ IF e.ok
              THEN /\ formatted' = Format(e)
                   /\ pc' = [pc EXCEPT !["app"] = "idle", !["cons"] = "c_check"]
                   /\ UNCHANGED wg
              ELSE \* the Formatter failed: print the error and return
                   /\ pc' = [pc EXCEPT !["app"] = "idle", !["cons"] = "exit"]
                   /\ wg' = wg - 1
                   /\ UNCHANGED formatted
    /\ UNCHANGED <<options, h, errorC, entryC, done, ticker, batch, size, loaded, sent, appended,
                   closes, panicked>>

ConsumerRangeEnds ==
    /\ ~panicked
    /\ pc["cons"] = "c_recv"
    /\ entryC = "closed"
    /\ pc' = [pc EXCEPT !["cons"] = "exit"]
    /\ wg' = wg - 1
    /\ UNCHANGED <<options, h, errorC, entryC, done, ticker, batch, size, formatted, loaded,
                   sent, appended, accepted, fireLog, closes, panicked>>

(* Mutant of WouldOverflow: the sum may reach maxContentSize. *)
WouldExceed(sz, line) == sz + line.len > maxContentSize

(* The flush test, left operand: size+len(formatted) >= maxContentSize. *)
WouldOverflow(sz, line) == sz + line.len >= maxContentSize

(* The flush test, right operand: len(batch) == maxLogCount. *)
IsFull(b) == Len(b) = maxLogCount

(* if size+len(formatted) >= maxContentSize || len(batch) == maxLogCount *)
ConsumerCheck ==
    /\ ~panicked
    /\ pc["cons"] = "c_check"
    /\ pc' = [pc EXCEPT !["cons"] = IF WouldOverflow(size, formatted) \/ IsFull(batch)
                                     THEN "c_flush" ELSE "c_append"]
    /\ UNCHANGED <<options, h, errorC, entryC, done, ticker, wg, batch, size, formatted, loaded,
                   sent, appended, accepted, fireLog, closes, panicked>>

ConsumerFlush ==
    /\ ~panicked
    /\ pc["cons"] = "c_flush"
    /\ CallSend("cons", batch, "c_send", "c_resetB")
    /\ UNCHANGED <<options, h, errorC, entryC, done, ticker, wg, batch, size, formatted, loaded,
                   appended, accepted, fireLog, closes, panicked>>

ConsumerResetBatch ==
    /\ ~panicked
    /\ pc["cons"] = "c_resetB"
    /\ batch' = <<>>
    /\ pc' = [pc EXCEPT !["cons"] = "c_resetS"]
    /\ UNCHANGED <<options, h, errorC, entryC, done, ticker, wg, size, formatted, loaded,
                   sent, appended, accepted, fireLog, closes, panicked>>

ConsumerResetSize ==
    /\ ~panicked
    /\ pc["cons"] = "c_resetS"
    /\ size' = 0
    /\ pc' = [pc EXCEPT !["cons"] = "c_append"]
    /\ UNCHANGED <<options, h, errorC, entryC, done, ticker, wg, batch, formatted, loaded,
                   sent, appended, accepted, fireLog, closes, panicked>>

(* len(formatted) > maxLogSize *)
TooLarge(line) == line.len > maxLogSize

(* The oversize test, then the load of batch that append() starts with. *)
ConsumerLoadBatch ==
    /\ ~panicked
    /\ pc["cons"] = "c_append"
    /\ IF TooLarge(formatted)
       THEN /\ pc' = [pc EXCEPT !["cons"] = "exit"]
            /\ wg' = wg - 1
            /\ formatted' = None
            /\ UNCHANGED loaded
       ELSE /\ pc' = [pc EXCEPT !["cons"] = "c_store"]
            /\ loaded' = [loaded EXCEPT !.batch = batch]
            /\ UNCHANGED <<wg, formatted>>
    /\ UNCHANGED <<options, h, errorC, entryC, done, ticker, batch, size,
                   sent, appended, accepted, fireLog, closes, panicked>>

(* Mutant of AppendLine: the new line is put in front. *)
PrependLine(b, line) == <<line>> \o b

(* append(batch, formatted) *)
AppendLine(b, line) == Append(b, line)

ConsumerStoreBatch ==
    /\ ~panicked
    /\ pc["cons"] = "c_store"
    /\ batch' = AppendLine(loaded.batch, formatted)
    /\ appended' = Append(appended, formatted)
    /\ loaded' = [loaded EXCEPT !.batch = <<>>]
    /\ pc' = [pc EXCEPT !["cons"] = "c_loadSize"]
    /\ UNCHANGED <<options, h, errorC, entryC, done, ticker, wg, size, formatted,
                   sent, accepted, fireLog, closes, panicked>>

ConsumerLoadSize ==
    /\ ~panicked
    /\ pc["cons"] = "c_loadSize"
    /\ loaded' = [loaded EXCEPT !.size = size]
    /\ pc' = [pc EXCEPT !["cons"] = "c_storeSize"]
    /\ UNCHANGED <<options, h, errorC, entryC, done, ticker, wg, batch, size, formatted,
                   sent, appended, accepted, fireLog, closes, panicked>>

ConsumerStoreSize ==
    /\ ~panicked
    /\ pc["cons"] = "c_storeSize"
    /\ size' = loaded.size + formatted.len
    /\ loaded' = [loaded EXCEPT !.size = 0]
    /\ formatted' = None
    /\ pc' = [pc EXCEPT !["cons"] = "c_recv"]
    /\ UNCHANGED <<options, h, errorC, entryC, done, ticker, wg, batch,
                   sent, appended, accepted, fireLog, closes, panicked>>

(***************************************************************************)
(* batch(): the ticker goroutine, select on ticker.C and h.done            *)
(***************************************************************************)
Tick ==
    /\ ~panicked
    /\ ~ticker.stopped
    /\ ~ticker.pending
    /\ ticker.count < MaxTicks
    /\ ticker' = [ticker EXCEPT !.pending = TRUE, !.count = @ + 1,
                                !.mark = Len(appended)]
    /\ UNCHANGED <<options, h, errorC, entryC, done, wg, batch, size, pc, formatted, loaded,
                   sent, appended, accepted, fireLog, closes, panicked>>

(* case <-ticker: h.send(batch) *)
TickerFlush ==
    /\ ~panicked
    /\ pc["tick"] = "t_select"
    /\ ticker.pending
    /\ ticker' = [ticker EXCEPT !.pending = FALSE]
    /\ CallSend("tick", batch, "t_send", "t_resetB")
    /\ UNCHANGED <<options, h, errorC, entryC, done, wg, batch, size, formatted, loaded,
                   appended, accepted, fireLog, closes, panicked>>

TickerResetBatch ==
    /\ ~panicked
    /\ pc["tick"] = "t_resetB"
    /\ batch' = <<>>
    /\ pc' = [pc EXCEPT !["tick"] = "t_resetS"]
    /\ UNCHANGED <<options, h, errorC, entryC, done, ticker, wg, size, formatted, loaded,
                   sent, appended, accepted, fireLog, closes, panicked>>

TickerResetSize ==
    /\ ~panicked
    /\ pc["tick"] = "t_resetS"
    /\ size' = 0
    /\ pc' = [pc EXCEPT !["tick"] = "t_select"]
    /\ UNCHANGED <<options, h, errorC, entryC, done, ticker, wg, batch, formatted, loaded,
                   sent, appended, accepted, fireLog, closes, panicked>>

(* case <-h.done: h.send(batch) and return (deferred wg.Done).  The value   *)
(* comes from the helper's h.done <- true, or is the zero value of the     *)
(* closed channel.                                                         *)
TickerFinalFlush ==
    /\ ~panicked
    /\ pc["tick"] = "t_select"
    /\ done = "closed" \/ pc["helper"] = "h_send"
    /\ sent' = SentWith("tick", batch)
    /\ pc' = [pc EXCEPT !["tick"] = PcOfSend(batch, "d_send", "exit"),
                        !["helper"] = IF done = "open" THEN "exit" ELSE @]
    /\ wg' = IF pc'["tick"] = "exit" THEN wg - 1 ELSE wg
    /\ UNCHANGED <<options, h, errorC, entryC, done, ticker, batch, size, formatted, loaded,
                   appended, accepted, fireLog, closes, panicked>>

(***************************************************************************)
(* Close()                                                                 *)
(***************************************************************************)

(* close(h.entryC): closing a closed channel panics. *)
CloseEntryC ==
    /\ ~panicked
    /\ pc["closer"] = "idle"
    /\ closes < MaxClose
    /\ IF entryC = "closed"
       THEN /\ panicked' = TRUE
            /\ pc' = [pc EXCEPT !["closer"] = "panic"]
            /\ UNCHANGED entryC
       ELSE /\ entryC' = "closed"
            /\ pc' = [pc EXCEPT !["closer"] = "cl_stop"]
            /\ UNCHANGED panicked
    /\ UNCHANGED <<options, h, errorC, done, ticker, wg, batch, size, formatted, loaded,
                   sent, appended, accepted, fireLog, closes>>

(* h.ticker.Stop(): no tick is sent any more.  Whether a tick already in   *)
(* ticker.C can still be received depends on the Go release.               *)
CloseStopTicker ==
    /\ ~panicked
    /\ pc["closer"] = "cl_stop"
    /\ \E keep \in BOOLEAN :
         ticker' = [ticker EXCEPT !.stopped = TRUE, !.pending = @ /\ keep]
    /\ pc' = [pc EXCEPT !["closer"] = "cl_go"]
    /\ UNCHANGED <<options, h, errorC, entryC, done, wg, batch, size, formatted, loaded,
                   sent, appended, accepted, fireLog, closes, panicked>>

(* go func() { h.done <- true }() *)
CloseSpawnHelper ==
    /\ ~panicked
    /\ pc["closer"] = "cl_go"
    /\ pc' = [pc EXCEPT !["closer"] = "cl_wait", !["helper"] = "h_send"]
    /\ UNCHANGED <<options, h, errorC, entryC, done, ticker, wg, batch, size, formatted, loaded,
                   sent, appended, accepted, fireLog, closes, panicked>>

(* h.wg.Wait() *)
CloseWait ==
    /\ ~panicked
    /\ pc["closer"] = "cl_wait"
    /\ wg = 0
    /\ pc' = [pc EXCEPT !["closer"] = "cl_closeDone"]
    /\ UNCHANGED <<options, h, errorC, entryC, done, ticker, wg, batch, size, formatted, loaded,
                   sent, appended, accepted, fireLog, closes, panicked>>

(* close(h.done), and Close returns. *)
CloseDone ==
    /\ ~panicked
    /\ pc["closer"] = "cl_closeDone"
    /\ IF done = "closed"
       THEN /\ panicked' = TRUE
            /\ pc' = [pc EXCEPT !["closer"] = "panic"]
            /\ UNCHANGED <<done, closes>>
       ELSE /\ done' = "closed"
            /\ pc' = [pc EXCEPT !["closer"] = "idle"]
            /\ closes' = closes + 1
            /\ UNCHANGED panicked
    /\ UNCHANGED <<options, h, errorC, entryC, ticker, wg, batch, size, formatted, loaded,
                   sent, appended, accepted, fireLog>>

(* The helper's h.done <- true on the closed channel panics. *)
HelperPanics ==
    /\ ~panicked
    /\ pc["helper"] = "h_send"
    /\ done = "closed"
    /\ panicked' = TRUE
    /\ pc' = [pc EXCEPT !["helper"] = "panic"]
    /\ UNCHANGED <<options, h, errorC, entryC, done, ticker, wg, batch, size, formatted, loaded,
                   sent, appended, accepted, fireLog, closes>>

(***************************************************************************)
(* Specifications                                                          *)
(***************************************************************************)

(* New with the default options: batching enabled, the default endpoint    *)
(* (whose URL parses), MaxRetry as New sets it, scaled down.               *)
BatchedRetry == 1

Init == InitHook(TRUE, BatchedRetry, TRUE)

Next ==
    \/ Fire
    \/ FirePanics
    \/ BatchStartConsumer
    \/ BatchStartTicker
    \/ ConsumerReceive
    \/ ConsumerRangeEnds
    \/ ConsumerCheck
    \/ ConsumerFlush
    \/ ConsumerResetBatch
    \/ ConsumerResetSize
    \/ ConsumerLoadBatch
    \/ ConsumerStoreBatch
    \/ ConsumerLoadSize
    \/ ConsumerStoreSize
    \/ Tick
    \/ TickerFlush
    \/ TickerResetBatch
    \/ TickerResetSize
    \/ TickerFinalFlush
    \/ CloseEntryC
    \/ CloseStopTicker
    \/ CloseSpawnHelper
    \/ CloseWait
    \/ CloseDone
    \/ HelperPanics
    \/ \E t \in {"cons", "tick"} : Attempt(t)

Spec == Init /\ [][Next]_vars

(* Batching disabled: Fire encodes and sends on the caller's goroutine.    *)
(* MaxRetry is an exported field: any value from -1 to MaxRetrySetting;    *)
(* the endpoint is any string, whose URL parses or not.                    *)
MaxRetrySetting == 5

InitUnbatched ==
    \E r \in -1..MaxRetrySetting, url \in BOOLEAN : InitHook(FALSE, r, url)

NextUnbatched ==
    \/ Fire
    \/ Attempt("app")
    \/ Tick
    \/ CloseEntryC
    \/ CloseStopTicker
    \/ CloseSpawnHelper
    \/ CloseWait
    \/ CloseDone
    \/ HelperPanics

SpecUnbatched == InitUnbatched /\ [][NextUnbatched]_vars

(***************************************************************************)
(* New(), from the call on.  The Options have an ApiKey that is nil, empty *)
(* or a key, and a ClientBatchingEnabled that is nil, true or false; a nil *)
(* *Options is the same as one whose fields are all nil.  The endpoint is  *)
(* left at its default.                                                    *)
(***************************************************************************)
NoHook == [ApiKey |-> FALSE, ClientBatchingEnabled |-> FALSE, MaxRetry |-> 0,
           urlOk |-> FALSE]

NoTicker == [stopped |-> TRUE, pending |-> FALSE, count |-> 0, mark |-> 0]

InitNew ==
    /\ options \in [ApiKey : {"nil", "", "key"},
                    ClientBatchingEnabled : {"nil", "true", "false"}]
    /\ h = NoHook
    /\ entryC = "none"
    /\ done = "none"
    /\ errorC = "none"
    /\ ticker = NoTicker
    /\ wg = 0
    /\ batch = <<>>
    /\ size = 0
    /\ pc = [t \in Goroutines |-> IF t = "app" THEN "new" ELSE "off"]
    /\ formatted = None
    /\ loaded = [batch |-> <<>>, size |-> 0]
    /\ sent = <<>>
    /\ appended = <<>>
    /\ accepted = <<>>
    /\ fireLog = <<>>
    /\ closes = 0
    /\ panicked = FALSE

(* Mutant of KeyMissing: only a nil ApiKey is refused. *)
KeyIsNil(o) == o.ApiKey = "nil"

(* options.ApiKey == nil || *options.ApiKey == "" *)
KeyMissing(o) == o.ApiKey = "nil" \/ o.ApiKey = ""

(* options.ClientBatchingEnabled, with defaultClientBatching for nil. *)
BatchingOf(o) ==
    IF o.ClientBatchingEnabled = "nil" THEN "true" ELSE o.ClientBatchingEnabled

New ==
    /\ pc["app"] = "new"
    /\ options' = [options EXCEPT !.ClientBatchingEnabled = BatchingOf(options)]
    /\ IF KeyMissing(options)
       THEN \* return nil, errors.New("apiKey not provided, ...")
            /\ pc' = [pc EXCEPT !["app"] = "failed"]
            /\ UNCHANGED <<h, entryC, done, ticker>>
       ELSE /\ h' = [ApiKey |-> TRUE,
                     ClientBatchingEnabled |-> BatchingOf(options) = "true",
                     MaxRetry |-> BatchedRetry, urlOk |-> TRUE]
            /\ entryC' = "open"
            /\ done' = "open"
            /\ ticker' = [stopped |-> FALSE, pending |-> FALSE, count |-> 0, mark |-> 0]
            /\ pc' = [t \in Goroutines |->
                         IF t \in {"app", "closer"} THEN "idle"
                         ELSE IF t = "batchfn" /\ h'.ClientBatchingEnabled THEN "b_start"
                         ELSE "off"]
    /\ UNCHANGED <<errorC, wg, batch, size, formatted, loaded, sent, appended,
                   accepted, fireLog, closes, panicked>>

NextNew ==
    \/ New
    \/ Next
    \/ Attempt("app")

SpecNew == InitNew /\ [][NextNew]_vars

(***************************************************************************)
(* The environment-configured hook (src/datadog/datadog.go):               *)
(* New(apiKey, minLevel, errorHandler), Fire, Close, batch, send.          *)
(*                                                                         *)
(* It always batches, has no done channel, and reports errors on h.errorC, *)
(* from which the goroutine started by New hands them to the error         *)
(* handler; the handler is taken to return, so a send on the open h.errorC *)
(* goes through, and a send on the closed h.errorC panics.  Its consumer   *)
(* goroutine calls h.wg.Done() after its loop, not deferred; its ticker    *)
(* goroutine is `for range ticker`, with h.wg.Done() after the loop.       *)
(* Where its code is that of the options-configured hook, the action is    *)
(* the same: Fire (line 144), the two wg.Add and go of batch (174-175,     *)
(* 199-200), the end of the range over h.entryC (176, 197), the flush test *)
(* and the flush (183-186), the append (194-195), the tick (201-204),      *)
(* close(h.entryC) and h.ticker.Stop() (132-133).                          *)
(***************************************************************************)

(* The state when New has returned a hook; DATADOG_MAX_RETRIES scaled. *)
InitEnv ==
    /\ options = [ApiKey |-> "key", ClientBatchingEnabled |-> "true"]
    /\ h = [ApiKey |-> TRUE, ClientBatchingEnabled |-> TRUE,
            MaxRetry |-> BatchedRetry, urlOk |-> TRUE]
    /\ entryC = "open"
    /\ done = "none"
    /\ errorC = "open"
    /\ ticker = [stopped |-> FALSE, pending |-> FALSE, count |-> 0, mark |-> 0]
    /\ wg = 0
    /\ batch = <<>>
    /\ size = 0
    /\ pc = [t \in Goroutines |->
                IF t \in {"app", "closer"} THEN "idle"
                ELSE IF t = "batchfn" THEN "b_start"
                ELSE "off"]
    /\ formatted = None
    /\ loaded = [batch |-> <<>>, size |-> 0]
    /\ sent = <<>>
    /\ appended = <<>>
    /\ accepted = <<>>
    /\ fireLog = <<>>
    /\ closes = 0
    /\ panicked = FALSE

(* h.errorC <- err by goroutine t, which is at `next` afterwards. *)
SendError(t, next) ==
    IF errorC = "closed"
    THEN /\ panicked' = TRUE
         /\ pc' = [pc EXCEPT ![t] = "panic"]
    ELSE /\ pc' = [pc EXCEPT ![t] = next]
         /\ UNCHANGED panicked

(* for entry := range h.entryC, and the Formatter: on an error the         *)
(* goroutine reports it and returns, without h.wg.Done().                  *)
EnvConsumerReceive ==
    /\ ~panicked
    /\ pc["cons"] = "c_recv"
    /\ entryC = "open"
    /\ pc["app"] = "fire_send"
    /\ LET e == fireLog[Len(fireLog)].entry
       IN  /\ accepted' = Append(accepted, e)
           /\ fireLog' = SetLastRet(fireLog, "nil")
           /\ IF e.ok
              THEN /\ formatted' = Format(e)
                   /\ pc' = [pc EXCEPT !["app"] = "idle", !["cons"] = "c_check"]
                   /\ UNCHANGED panicked
              ELSE /\ IF errorC = "closed"
                      THEN /\ panicked' = TRUE
                           /\ pc' = [pc EXCEPT !["app"] = "idle", !["cons"] = "panic"]
                      ELSE /\ pc' = [pc EXCEPT !["app"] = "idle", !["cons"] = "exit"]
                           /\ UNCHANGED panicked
                   /\ UNCHANGED formatted
    /\ UNCHANGED <<options, h, errorC, entryC, done, ticker, wg, batch, size, loaded,
                   sent, appended, closes>>

(* The oversize test: the goroutine reports the line and returns, without  *)
(* h.wg.Done(); otherwise the load of batch that append() starts with.     *)
EnvConsumerLoadBatch ==
    /\ ~panicked
    /\ pc["cons"] = "c_append"
    /\ IF TooLarge(formatted)
       THEN /\ SendError("cons", "exit")
            /\ formatted' = None
            /\ UNCHANGED loaded
       ELSE /\ pc' = [pc EXCEPT !["cons"] = "c_store"]
            /\ loaded' = [loaded EXCEPT !.batch = batch]
            /\ UNCHANGED <<formatted, panicked>>
    /\ UNCHANGED <<options, h, errorC, entryC, done, ticker, wg, batch, size,
                   sent, appended, accepted, fireLog, closes>>

(* One pass of the retry loop of send(); a cycle that is given up is       *)
(* reported on h.errorC.                                                   *)
EnvAttempt(t) ==
    /\ ~panicked
    /\ pc[t] \in {"c_send", "t_send"}
    /\ \E err \in BOOLEAN, status \in {200, 400}, left \in BodyLeftBy(sent[Cur(t)].body) :
         LET k == Cur(t)
             r == sent[k]
             failed == Failed(err \/ ShortBody(r.body), status)
             i2 == IF failed THEN r.i + 1 ELSE r.i
             over == ~failed \/ GivesUp(i2)
         IN  /\ sent' = [sent EXCEPT ![k] =
                            [r EXCEPT !.tries = Append(@, IF failed THEN "fail" ELSE "ok"),
                                      !.i = i2,
                                      !.result = IF ~failed THEN "ok"
                                                 ELSE IF GivesUp(i2) THEN "terminal"
                                                 ELSE "active",
                                      !.body = IF over THEN "gone" ELSE left]]
             /\ IF failed /\ over
                THEN SendError(t, AfterSend(pc[t]))
                ELSE /\ pc' = [pc EXCEPT ![t] = IF over THEN AfterSend(@) ELSE @]
                     /\ UNCHANGED panicked
    /\ UNCHANGED <<options, h, errorC, entryC, done, ticker, wg, batch, size, formatted,
                   loaded, appended, accepted, fireLog, closes>>

(* h.wg.Wait(), the statement after h.ticker.Stop(). *)
EnvCloseWait ==
    /\ ~panicked
    /\ pc["closer"] = "cl_go"
    /\ wg = 0
    /\ pc' = [pc EXCEPT !["closer"] = "cl_closeErr"]
    /\ UNCHANGED <<options, h, errorC, entryC, done, ticker, wg, batch, size, formatted,
                   loaded, sent, appended, accepted, fireLog, closes, panicked>>

(* close(h.errorC), and Close returns. *)
EnvCloseErrorC ==
    /\ ~panicked
    /\ pc["closer"] = "cl_closeErr"
    /\ IF errorC = "closed"
       THEN /\ panicked' = TRUE
            /\ pc' = [pc EXCEPT !["closer"] = "panic"]
            /\ UNCHANGED <<errorC, closes>>
       ELSE /\ errorC' = "closed"
            /\ pc' = [pc EXCEPT !["closer"] = "idle"]
            /\ closes' = closes + 1
            /\ UNCHANGED panicked
    /\ UNCHANGED <<options, h, entryC, done, ticker, wg, batch, size, formatted,
                   loaded, sent, appended, accepted, fireLog>>

(* The steps of the hook's goroutines and of a Close call under way: all   *)
(* but the application's calls of Fire and Close and the ticker's ticks.   *)
EnvStep ==
    \/ FirePanics
    \/ BatchStartConsumer
    \/ BatchStartTicker
    \/ EnvConsumerReceive
    \/ ConsumerRangeEnds
    \/ ConsumerCheck
    \/ ConsumerFlush
    \/ ConsumerResetBatch
    \/ ConsumerResetSize
    \/ EnvConsumerLoadBatch
    \/ ConsumerStoreBatch
    \/ ConsumerLoadSize
    \/ ConsumerStoreSize
    \/ TickerFlush
    \/ TickerResetBatch
    \/ TickerResetSize
    \/ CloseStopTicker
    \/ EnvCloseWait
    \/ EnvCloseErrorC
    \/ \E t \in {"cons", "tick"} : EnvAttempt(t)

NextEnv ==
    \/ Fire
    \/ Tick
    \/ CloseEntryC
    \/ EnvStep

SpecEnv == InitEnv /\ [][NextEnv]_vars

(***************************************************************************)
(* Properties of the send cycle                                            *)
(***************************************************************************)
Max(a, b) == IF a >= b THEN a ELSE b

Records == {sent[k] : k \in 1..Len(sent)}

(* The cycles that reached the retry loop. *)
Cycles == {r \in Records : r.result # "urlerr"}

AllFailed(r) == \A j \in 1..Len(r.tries) : r.tries[j] = "fail"

(* A cycle whose every attempt fails makes exactly n attempts: it is not   *)
(* given up before the n-th, it is given up at the n-th, none follows.     *)
FailingCycleMakes(n) ==
    \A r \in Cycles :
        AllFailed(r) =>
            /\ Len(r.tries) <= n
            /\ r.result = "terminal" => Len(r.tries) = n
            /\ (r.tries # <<>> /\ r.result = "active") => Len(r.tries) < n

(* C5, as claimed: when the transport fails every attempt and MaxRetry is  *)
(* non-negative, a send cycle makes exactly MaxRetry attempts, then drops  *)
(* the batch with a terminal failure, and no further attempt follows.      *)
C5_ExactlyMaxRetryAttempts ==
    h.MaxRetry >= 0 => FailingCycleMakes(h.MaxRetry)

(* C5, amended: when the transport fails every attempt and MaxRetry is     *)
(* non-negative, a send cycle makes exactly max(MaxRetry, 1) attempts      *)
(* (the first attempt is made even when MaxRetry is 0), then drops the     *)
(* batch with a terminal failure, and no further attempt follows.          *)
C5_AtLeastOneAttempt ==
    h.MaxRetry >= 0 => FailingCycleMakes(Max(h.MaxRetry, 1))

C5_Witness ==
    /\ h.MaxRetry = 5
    /\ \E r \in Cycles :
         r.result = "terminal" /\ r.tries = <<"fail", "fail", "fail", "fail", "fail">>

(* C6: when MaxRetry is negative a send cycle retries for ever: it never   *)
(* reports a terminal failure, however many attempts fail.                 *)
C6_NegativeNeverGivesUp ==
    h.MaxRetry < 0 => \A r \in Cycles : r.result # "terminal"

(* C7: a cycle whose attempts 1..k-1 fail and whose attempt k succeeds,    *)
(* 1 <= k <= MaxRetry, ends in success after exactly k attempts: it is not *)
(* given up before attempt k, and attempt k is its last.                   *)
C7_SuccessOnAttemptK ==
    \A r \in Cycles :
        /\ r.result = "terminal" => ~(Len(r.tries) < h.MaxRetry)
        /\ \A k \in 1..Len(r.tries) :
             (r.tries[k] = "ok" /\ k <= h.MaxRetry) =>
                 /\ Len(r.tries) = k
                 /\ r.result = "ok"
                 /\ r.i = k - 1

C7_Witness ==
    /\ h.MaxRetry >= 3
    /\ \E r \in Cycles : r.result = "ok" /\ r.tries = <<"fail", "fail", "ok">>

(***************************************************************************)
(* Batching disabled                                                       *)
(***************************************************************************)

(* The lines of the Fire calls whose entry encoded, in call order. *)
RECURSIVE EncodedLines(_)
EncodedLines(log) ==
    IF log = <<>> THEN <<>>
    ELSE IF Head(log).entry.ok
         THEN <<Format(Head(log).entry)>> \o EncodedLines(Tail(log))
         ELSE EncodedLines(Tail(log))

Range(q) == {q[k] : k \in 1..Len(q)}

RECURSIVE Flatten(_)
Flatten(recs) ==
    IF recs = <<>> THEN <<>> ELSE Head(recs).lines \o Flatten(Tail(recs))

(* The number of send calls that were handed line l. *)
Occ(l) == Cardinality({k \in 1..Len(sent) : l \in Range(sent[k].lines)})

WorkersExited == pc["cons"] = "exit" /\ pc["tick"] = "exit"

(* C1: in batched mode, when N entries (N below the line-count threshold,  *)
(* their total size below the content-size threshold) were accepted by     *)
(* Fire and Close() was then called and has returned, all N lines were     *)
(* handed to send() in Fire order, each once, and no send cycle is still    *)
(* running.                                                                *)
C1_CloseDeliversAll ==
    ( /\ h.ClientBatchingEnabled
      /\ closes >= 1
      /\ ~panicked
      /\ Len(fireLog) < maxLogCount
      /\ \A k \in 1..Len(fireLog) :
           /\ fireLog[k].ret = "nil"
           /\ fireLog[k].entry.ok
           /\ ~TooLarge(Format(fireLog[k].entry))
      /\ SumLen(EncodedLines(fireLog)) < maxContentSize )
    => /\ Flatten(sent) = EncodedLines(fireLog)
       /\ \A r \in Records : r.result # "active"

(* C2: every line the consumer goroutine appended to the batch is handed   *)
(* to send() in exactly one batch: never in two send calls, and while it   *)
(* has not been handed over it is still in the batch, which is handed over *)
(* before the goroutines end.                                              *)
C2_HandedOffExactlyOnce ==
    \A l \in Range(appended) :
        /\ Occ(l) <= 1
        /\ Occ(l) = 0 => (l \in Range(batch) /\ ~WorkersExited)

(* C3: lines are never reordered.  Within a batch handed to send() the     *)
(* lines are in the order the consumer received them, and when a line is   *)
(* handed over, every line received before it that is handed over at all   *)
(* is in an earlier send call or earlier in the same batch.                *)
C3_NeverReordered ==
    \A k \in 1..Len(sent) :
        \A q \in 1..Len(sent[k].lines) :
            LET l2 == sent[k].lines[q]
            IN  /\ \A p \in 1..(q - 1) : sent[k].lines[p].id < l2.id
                /\ \A l1 \in Range(Flatten(sent)) :
                     l1.id < l2.id =>
                        \E j \in 1..k :
                            \E p \in 1..Len(sent[j].lines) :
                                /\ sent[j].lines[p] = l1
                                /\ j < k \/ p < q

C3_Witness ==
    /\ \E k \in 1..Len(sent) : Len(sent[k].lines) = 2
    /\ \E j, k \in 1..Len(sent) :
         /\ j < k
         /\ \E l1 \in Range(sent[j].lines), l2 \in Range(sent[k].lines) : l1.id < l2.id
         /\ sent[j].who # sent[k].who

(* C4: every batch handed to send() is within both thresholds: the framed  *)
(* payload (the lines, the opening and the closing delimiter, the          *)
(* separators) is at most maxContentSize long, and there are at most       *)
(* maxLogCount lines.                                                      *)
C4_WithinThresholds ==
    \A r \in Records :
        /\ BufLen(r.lines) <= maxContentSize
        /\ Len(r.lines) <= maxLogCount

(* C9: in batched mode, after an entry was dropped because it did not      *)
(* encode or was oversize, the consumer goroutine goes on: a later Fire    *)
(* call is not left blocked on the open channel with no receiver.          *)
C9_DropKeepsConsuming ==
    ( /\ \E e \in Range(accepted) : ~e.ok \/ TooLarge(Format(e))
      /\ entryC = "open"
      /\ pc["app"] = "fire_send" )
    => pc["cons"] # "exit"

(* C10: a line longer than maxLogSize is never in a batch handed to        *)
(* send().                                                                 *)
C10_NoOversizeLineSent ==
    \A r \in Records : \A l \in Range(r.lines) : ~TooLarge(l)


(***************************************************************************)
(* Properties of Close and of the hook's life cycle                        *)
(***************************************************************************)

(* C11: Close() blocks until the hook is fully closed.  In batched mode,   *)
(* when a Close call has returned, the consumer goroutine and the ticker   *)
(* goroutine have both exited and no send cycle is running (so the final   *)
(* flush's send call has returned and, the goroutines being gone, no send  *)
(* starts afterwards).                                                     *)
C11_CloseBlocksUntilClosed ==
    (h.ClientBatchingEnabled /\ closes >= 1 /\ ~panicked) =>
        /\ WorkersExited
        /\ \A r \in Records : r.result # "active"

(* The ticker goroutine is back at its select with every tick that fired   *)
(* received and handled: a tick leaves ticker.C of a running ticker only   *)
(* by being received.                                                      *)
TicksHandled ==
    /\ ticker.count >= 1
    /\ ~ticker.stopped
    /\ ~ticker.pending
    /\ pc["tick"] = "t_select"

(* C12: every tick flushes, whatever the thresholds: when the handling of  *)
(* a tick is complete, every line that was appended to the batch before    *)
(* that tick fired has been handed to send().                              *)
C12_TickFlushesBuffered ==
    TicksHandled => \A k \in 1..ticker.mark : Occ(appended[k]) >= 1

(***************************************************************************)
(* Properties of the consumer goroutine's steps                            *)
(***************************************************************************)

(* The consumer goroutine decides on a line: it hands the batch over       *)
(* before appending exactly when the test holds of the running size, the   *)
(* line and the batch; what it hands over then is the current batch; and   *)
(* it hands a batch over at no other point.                                *)
FlushesExactlyWhen(overTheLimit) ==
    /\ (pc["cons"] = "c_check" /\ pc'["cons"] # "c_check") =>
           /\ pc'["cons"] \in {"c_flush", "c_append"}
           /\ pc'["cons"] = "c_flush" <=> (overTheLimit \/ Len(batch) = maxLogCount)
    /\ (pc["cons"] = "c_flush" /\ pc'["cons"] # "c_flush") =>
           sent' = IF batch = <<>> THEN sent
                   ELSE Append(sent, [who |-> "cons", lines |-> batch, tries |-> <<>>,
                                      i |-> 0, result |-> "active", body |-> "full"])
    /\ (Len(sent') > Len(sent) /\ sent'[Len(sent')].who = "cons") =>
           pc["cons"] = "c_flush"

(* C13, as claimed: the consumer goroutine hands the current batch over    *)
(* before appending a line if and only if adding the line would make the   *)
(* batch exceed maxContentSize or the batch already holds maxLogCount      *)
(* lines.                                                                  *)
C13_FlushIffWouldExceed ==
    [][FlushesExactlyWhen(size + formatted.len > maxContentSize)]_vars

(* C13, amended: the consumer goroutine hands the current batch over       *)
(* before appending a line if and only if the running size plus the line's *)
(* length reaches or exceeds maxContentSize, or the batch already holds    *)
(* maxLogCount lines.                                                      *)
C13_FlushAtThreshold ==
    [][FlushesExactlyWhen(size + formatted.len >= maxContentSize)]_vars

(* A flush of a batch that the line would fill to maxContentSize exactly. *)
C13_Witness ==
    /\ pc["cons"] = "c_send"
    /\ ~TooLarge(formatted)
    /\ Len(batch) < maxLogCount
    /\ size + formatted.len = maxContentSize
    /\ sent # <<>>
    /\ sent[Len(sent)] = [who |-> "cons", lines |-> batch, tries |-> <<>>,
                          i |-> 0, result |-> "active", body |-> "full"]

(***************************************************************************)
(* Properties of New and of Fire's result                                  *)
(***************************************************************************)

(* Nothing of a hook exists: no channel, no running ticker, no goroutine. *)
NothingCreated ==
    /\ h = NoHook
    /\ entryC = "none"
    /\ done = "none"
    /\ ticker = NoTicker
    /\ wg = 0
    /\ \A t \in Goroutines \ {"app"} : pc[t] = "off"
    /\ sent = <<>>

BatchingStarted ==
    pc["batchfn"] # "off" \/ pc["cons"] # "off" \/ pc["tick"] # "off"

(* C15: New with a nil or empty ApiKey returns an error and creates        *)
(* nothing, then and ever after: no hook, no goroutine, no ticker.  With a *)
(* non-empty ApiKey it returns a hook, and the batching goroutines are     *)
(* started exactly when batching is enabled (ClientBatchingEnabled nil or  *)
(* true).                                                                  *)
C15_NewFailsWithoutKey ==
    /\ pc["app"] = "new" => NothingCreated
    /\ pc["app"] # "new" =>
          IF options.ApiKey \in {"nil", ""}
          THEN pc["app"] = "failed" /\ NothingCreated
          ELSE /\ pc["app"] # "failed"
               /\ h.ApiKey
               /\ h.ClientBatchingEnabled <=> options.ClientBatchingEnabled = "true"
               /\ BatchingStarted <=> h.ClientBatchingEnabled
               /\ entryC # "none" /\ done # "none"

C15_Witness ==
    /\ pc["app"] = "failed"
    /\ options.ApiKey = ""
    /\ NothingCreated

(* The send calls that were handed the line of the k-th Fire call. *)
SendsOf(k) == {j \in 1..Len(sent) : \E l \in Range(sent[j].lines) : l.id = k}

(* C14: Fire returns an error only when batching is disabled and the entry *)
(* does not encode, and then nothing of the entry is handed to send(); in  *)
(* batched mode no Fire call returns an error, whatever the Formatter and  *)
(* the send cycles do afterwards.                                          *)
C14_FireErrorOnlyOnEncode ==
    \A k \in 1..Len(fireLog) :
        /\ fireLog[k].ret = "err" =>
               /\ ~h.ClientBatchingEnabled
               /\ ~fireLog[k].entry.ok
               /\ SendsOf(k) = {}
        /\ h.ClientBatchingEnabled => fireLog[k].ret \in {"blocked", "nil", "panic"}

(* Batching disabled: one Fire call returned the encoder's error, another  *)
(* returned nil although its send cycle was given up.                      *)
C14_Witness ==
    /\ ~h.ClientBatchingEnabled
    /\ \E k \in 1..Len(fireLog) : fireLog[k].ret = "err" /\ ~fireLog[k].entry.ok
    /\ \E k \in 1..Len(fireLog) :
         /\ fireLog[k].ret = "nil"
         /\ \E j \in SendsOf(k) : sent[j].result = "terminal"

(* C16: a Close call on a hook that has already been closed returns        *)
(* normally: once a Close call has returned, no later Close call panics.   *)
C16_SecondCloseIsNoOp ==
    closes >= 1 => pc["closer"] # "panic"

(* C17: a Fire call made after Close has begun (h.entryC is closed) fails  *)
(* loudly: it hands nothing to send() and does not return nil; it returns  *)
(* an error, or it is at the send on the closed channel, which panics.     *)
C17_FireAfterCloseFails ==
    [][(entryC = "closed" /\ Len(fireLog') > Len(fireLog)) =>
           /\ sent' = sent
           /\ fireLog'[Len(fireLog')].ret \in {"err", "blocked"}]_vars

(***************************************************************************)
(* Properties of the sharing of batch and size                             *)
(***************************************************************************)

(* The send calls that are in their retry loop. *)
InProgress == {k \in 1..Len(sent) : sent[k].result = "active"}

(* C18: at most one send call is in progress at any time: a send of the    *)
(* ticker goroutine (on a tick or on done) and a threshold send of the     *)
(* consumer goroutine never run at the same time.                          *)
C18_OneSendAtATime ==
    Cardinality(InProgress) <= 1

(* The consumer goroutine is between a read of batch or size and the       *)
(* write that depends on it: from the flush test to the resets, or from    *)
(* the loads of the append to its stores.                                  *)
ConsumerMidUpdate ==
    pc["cons"] \in {"c_flush", "c_send", "c_resetB", "c_resetS",
                    "c_store", "c_storeSize"}

(* The ticker goroutine has read batch for its send and is sending it or   *)
(* resetting batch and size.                                               *)
TickerOnBatch ==
    pc["tick"] \in {"t_send", "t_resetB", "t_resetS", "d_send"}

(* C19: batch and size are read and written by the consumer goroutine      *)
(* only: the ticker goroutine is never reading, sending or resetting them  *)
(* while the consumer goroutine is between reading them and writing them   *)
(* back.                                                                   *)
C19_BatchOwnedByConsumer ==
    ~(ConsumerMidUpdate /\ TickerOnBatch)

(* C20: an oversize line leaves the batch untouched.  While the consumer   *)
(* goroutine holds a line longer than maxLogSize, none of its steps        *)
(* changes batch or size, and none hands a batch to send().                *)
C20_OversizeLeavesBatch ==
    [][(TooLarge(formatted) /\ pc'["cons"] # pc["cons"]) =>
           /\ batch' = batch
           /\ size' = size
           /\ Len(sent') = Len(sent)]_vars

(***************************************************************************)
(* Properties of a send cycle that is given up                             *)
(***************************************************************************)

(* The batches whose send cycle was given up. *)
GivenUp == {k \in 1..Len(sent) : sent[k].result = "terminal"}

(* C21: a send cycle that is given up drops its batch and nothing else.    *)
(* No line of a given-up batch is in a send call made later; the step that *)
(* gives a cycle up leaves batch and size alone and lets the caller go on  *)
(* after its call of send(); and it is no panic.                           *)
C21_TerminalDropsBatchOnly ==
    [] [ /\ Len(sent') > Len(sent) =>
              \A k \in GivenUp :
                  Range(sent[k].lines) \cap Range(sent'[Len(sent')].lines) = {}
         /\ \A k \in 1..Len(sent) :
              (sent[k].result = "active" /\ sent'[k].result = "terminal") =>
                  /\ batch' = batch
                  /\ size' = size
                  /\ ~panicked'
                  /\ pc'[sent[k].who] = AfterSend(pc[sent[k].who]) ]_vars

(* C22: every attempt of a send cycle carries the payload of the first:   *)
(* when an attempt is made, the request's body still holds all of the      *)
(* framed batch.                                                           *)
C22_SamePayloadEveryAttempt ==
    [][\A k \in 1..Len(sent) :
           Len(sent'[k].tries) > Len(sent[k].tries) => sent[k].body = "full"]_vars

(***************************************************************************)
(* Properties of the hand-off from Fire to the consumer goroutine          *)
(***************************************************************************)

(* The entries of the Fire calls that have returned nil, in call order. *)
RECURSIVE ReturnedEntries(_)
ReturnedEntries(log) ==
    IF log = <<>> THEN <<>>
    ELSE IF Head(log).ret = "nil"
         THEN <<Head(log).entry>> \o ReturnedEntries(Tail(log))
         ELSE ReturnedEntries(Tail(log))

(* The Fire calls that returned are those whose entry the consumer         *)
(* goroutine took, and a call whose entry was not taken is the running     *)
(* call, waiting in its send: one entry for the one producer.              *)
ReturnedIffTaken ==
    /\ accepted = ReturnedEntries(fireLog)
    /\ \A k \in 1..Len(fireLog) :
         fireLog[k].ret = "blocked" => (k = Len(fireLog) /\ pc["app"] = "fire_send")

(* C23: in batched mode Fire is a rendezvous with the consumer goroutine.  *)
(* A Fire call returns only when the consumer goroutine has taken its      *)
(* entry; no Fire call returns in a step taken while the consumer          *)
(* goroutine is anywhere but at its receive (in send() and its retries,    *)
(* in the resets, in the append); and at most the running call's entry is  *)
(* waiting outside the batch.                                              *)
C23_FireIsRendezvous ==
    [][ /\ ReturnedIffTaken'
        /\ pc["cons"] # "c_recv" =>
               ReturnedEntries(fireLog') = ReturnedEntries(fireLog) ]_vars

(* A producer waits in Fire while the consumer goroutine is in send(). *)
C23_Witness ==
    /\ pc["cons"] = "c_send"
    /\ pc["app"] = "fire_send"
    /\ fireLog[Len(fireLog)].ret = "blocked"
    /\ Len(accepted) = Len(fireLog) - 1

(***************************************************************************)
(* Properties of Close with batching disabled, and of the                  *)
(* environment-configured hook                                             *)
(***************************************************************************)

(* A Close call of the environment-configured hook is under way. *)
EnvClosing == pc["closer"] \in {"cl_stop", "cl_go", "cl_closeErr"}

(* C24: Close() of the environment-configured hook returns, after every    *)
(* buffered entry has been sent.  With every transport attempt returning   *)
(* and MaxRetry >= 0, a Close call under way that has not panicked is      *)
(* never left with no step of the hook to take; and when a Close call has  *)
(* returned, every line that was put into the batch has been handed to     *)
(* send().  The steps include those of a consumer goroutine that returned  *)
(* on an encoding or oversize error.                                       *)
C24_EnvCloseReturns ==
    /\ (EnvClosing /\ ~panicked) => ENABLED EnvStep
    /\ closes >= 1 => \A l \in Range(appended) : Occ(l) >= 1

(* C25: with batching disabled Close() returns normally: the goroutine it  *)
(* starts for h.done <- true does not panic on the closed channel, and it  *)
(* is not left in its send when Close has returned.                        *)
C25_UnbatchedCloseReturns ==
    ~h.ClientBatchingEnabled =>
        /\ pc["helper"] # "panic"
        /\ closes >= 1 => pc["helper"] # "h_send"

=============================================================================
